---- MODULE Spec2Model ----
(***************************************************************************)
(* A model of autosynth.multi: the batch driver main(), the per-library    *)
(* generator run synthesize_library(), the issue reporter                  *)
(* report_to_github() with its lru_cache'd issue listing, and              *)
(* make_report().  The tracker client (autosynth.github.GitHub) and the    *)
(* skipped sentinel (autosynth.synth.EXIT_CODE_SKIPPED) are modelled at    *)
(* their interface.                                                        *)
(***************************************************************************)
EXTENDS Integers, Sequences, FiniteSets, TLC

VARIABLES
    pc,           \* position of main(): load_config, synthesize, report, make_report, exit, done
    config,       \* value returned by load_config
    i,            \* 1-based index of the library the for loop of main() is at
    results,      \* main()'s results list
    issues,       \* the tracker's issues, in the order the tracker lists them
    cache,        \* lru_cache of _list_issues_cached: repository -> cached list
    runs,         \* history: the runner invocations, in order
    calls,        \* history: per library, the tracker calls its report step made
    reports,      \* history: the reports make_report wrote
    exit_status,  \* the process's exit status, NotExited while running
    lc,           \* a call of load_config: its inputs and what it returned
    sl,           \* a call of synthesize_library: its inputs and what the runner got
    log_collector, \* a LogCollector object: its attributes
    log_history,  \* history: the entries added to log_collector, write_xml_log's outcome
    gapic,        \* gapic_microgenerator: LOCAL_GOOGLEAPIS and a GAPICMicrogenerator's attributes
    synthtool,    \* synthtool's metadata destinations, tracked paths and shell commands run
    generated     \* history: the calls of _generate_code

batchVars == <<pc, config, i, results, issues, cache, runs, calls, reports, exit_status>>

unitVars == <<lc, sl, log_collector, log_history, gapic, synthtool, generated>>

vars == <<batchVars, unitVars>>

----------------------------------------------------------------------------
(* Bounds and input sets *)

MaxLibs == 2
MaxEntries == 3
MaxGenerate == 2

\* The library configurations a configuration may list.
LibraryChoices ==
    { [name |-> "a", repository |-> "o/r1", no_create_issue |-> FALSE],
      [name |-> "b", repository |-> "o/r1", no_create_issue |-> FALSE],
      [name |-> "a", repository |-> "o/r2", no_create_issue |-> FALSE],
      [name |-> "a", repository |-> "o/r1", no_create_issue |-> TRUE] }

RECURSIVE SeqsUpTo(_, _)
SeqsUpTo(S, n) ==
    IF n = 0 THEN { <<>> }
    ELSE LET shorter == SeqsUpTo(S, n - 1)
         IN  shorter \cup { Append(s, x) : s \in shorter, x \in S }

LibraryLists == SeqsUpTo(LibraryChoices, MaxLibs)

ReturnCodes == {0, 1, 28}
Outputs == {"log"}
NotExited == -1

\* What get_api_label may return; NoLabel stands for None (falsy).
NoLabel == ""
ApiLabelChoices == {NoLabel, "api: x"}

----------------------------------------------------------------------------
(* autosynth.synth and autosynth.github, at their interface *)

EXIT_CODE_SKIPPED == 28

BaseLabels == <<"autosynth failure", "priority: p1", "type: bug">>

SeqToSet(s) == { s[k] : k \in 1..Len(s) }

\* existing_issue = None
None ==
    [number |-> 0, repository |-> "", title |-> "", state |-> "",
     labels |-> <<>>, comments |-> <<>>]

NewIssue(number, repository, title, labels) ==
    [number |-> number, repository |-> repository, title |-> title,
     state |-> "open", labels |-> labels, comments |-> <<>>]

\* gh.list_issues(repository, state=..., label=...)
ListIssues(all, repository, state, label) ==
    LET Keep(x) == /\ x.repository = repository
                   /\ x.state = state
                   /\ label \in SeqToSet(x.labels)
    IN  SelectSeq(all, Keep)

\* A tracker call as the client sees it.
Call(op, repository, number, title, labels, comment, state) ==
    [op |-> op, repository |-> repository, number |-> number, title |-> title,
     labels |-> labels, comment |-> comment, state |-> state,
     returned |-> NoLabel, raised |-> FALSE]

\* The effect of one tracker call that did not raise.
ApplyCall(all, c) ==
    IF c.op = "create_issue"
      THEN Append(all, NewIssue(Len(all) + 1, c.repository, c.title, c.labels))
    ELSE IF c.op = "create_issue_comment"
      THEN [k \in 1..Len(all) |->
              IF all[k].number = c.number /\ all[k].repository = c.repository
                THEN [all[k] EXCEPT !.comments = Append(@, c.comment)]
                ELSE all[k]]
    ELSE IF c.op = "patch_issue"
      THEN [k \in 1..Len(all) |->
              IF all[k].number = c.number /\ all[k].repository = c.repository
                THEN [all[k] EXCEPT !.state = c.state]
                ELSE all[k]]
    ELSE all

RECURSIVE ApplyCalls(_, _)
ApplyCalls(all, cs) ==
    IF cs = <<>> THEN all
    ELSE ApplyCalls(IF Head(cs).raised THEN all ELSE ApplyCall(all, Head(cs)),
                    Tail(cs))

\* The trackers a batch run may start against: open failure issues of
\* repository o/r1, numbered in list order.
InitialTitleLists ==
    { <<>>,
      <<"Synthesis failed for a">>,
      <<"Synthesis failed for a", "Synthesis failed for a">>,
      <<"Synthesis failed for b", "Synthesis failed for a">> }

InitialTrackers ==
    { [k \in 1..Len(ts) |-> NewIssue(k, "o/r1", ts[k], BaseLabels)] :
        ts \in InitialTitleLists }

----------------------------------------------------------------------------
(* autosynth.multi *)

\* Variant: only exit code 0 counts as not-a-failure.
IsError_NonZero(returncode) == returncode # 0

IsError(returncode) == returncode \notin {0, EXIT_CODE_SKIPPED}

IsSkipped(returncode) == returncode = EXIT_CODE_SKIPPED

\* The dictionary synthesize_library returns.
SynthResult(library, returncode, output) ==
    [name |-> library.name, output |-> output,
     error |-> IsError(returncode), skipped |-> IsSkipped(returncode)]

IssueTitle(name) == "Synthesis failed for " \o name

\* Variant: the title filter is dropped, the first open issue is taken.
ExistingIssue_AnyTitle(open_issues, issue_title) ==
    IF Len(open_issues) > 0 THEN open_issues[1] ELSE None

\* Variant: the last matching issue is taken instead of the first.
ExistingIssue_Last(open_issues, issue_title) ==
    LET Keep(x) == x.title = issue_title
        existing_issues == SelectSeq(open_issues, Keep)
    IN  IF Len(existing_issues) > 0
          THEN existing_issues[Len(existing_issues)] ELSE None

\* existing_issues[0] if len(existing_issues) else None
ExistingIssue(open_issues, issue_title) ==
    LET Keep(x) == x.title = issue_title
        existing_issues == SelectSeq(open_issues, Keep)
    IN  IF Len(existing_issues) > 0 THEN existing_issues[1] ELSE None

ListCall(repository) ==
    Call("list_issues", repository, 0, "", <<"autosynth failure">>, "", "open")

\* Variant: the issue is closed before the closing comment is posted.
CloseIssueCalls_PatchFirst(repository, existing_issue) ==
    IF existing_issue = None THEN <<>>
    ELSE << Call("patch_issue", repository, existing_issue.number,
                 "", <<>>, "", "closed"),
            Call("create_issue_comment", repository, existing_issue.number,
                 "", <<>>, "Autosynth passed, closing!", "") >>

\* The tracker calls of _close_issue, in order.
CloseIssueCalls(repository, existing_issue) ==
    IF existing_issue = None THEN <<>>
    ELSE << Call("create_issue_comment", repository, existing_issue.number,
                 "", <<>>, "Autosynth passed, closing!", ""),
            Call("patch_issue", repository, existing_issue.number,
                 "", <<>>, "", "closed") >>

\* Variant: the api label is appended without the check that it is set.
IssueLabels_Always(api_label) == Append(BaseLabels, api_label)

\* The labels of a new issue.
IssueLabels(api_label) ==
    IF api_label # NoLabel THEN Append(BaseLabels, api_label) ELSE BaseLabels

\* The tracker calls of _file_or_comment_on_issue, in order; api_label is
\* what get_api_label returns.
FileOrCommentCalls(name, repository, issue_title, existing_issue, api_label) ==
    IF existing_issue = None
      THEN << [Call("get_api_label", repository, 0, name, <<>>, "", "")
                 EXCEPT !.returned = api_label],
              Call("create_issue", repository, 0, issue_title,
                   IssueLabels(api_label), "", "") >>
      ELSE << Call("create_issue_comment", repository, existing_issue.number,
                   "", <<>>, "Autosynth is still having trouble", "") >>

\* Variant: the else is lost, the failure path also runs after the success path.
ReportCalls_NoElse(name, repository, error, open_issues, api_label) ==
    LET issue_title == IssueTitle(name)
        existing_issue == ExistingIssue(open_issues, issue_title)
    IN  IF ~error
          THEN CloseIssueCalls(repository, existing_issue)
               \o FileOrCommentCalls(name, repository, issue_title,
                                     existing_issue, api_label)
          ELSE FileOrCommentCalls(name, repository, issue_title,
                                  existing_issue, api_label)

\* The tracker calls report_to_github makes after it has the open issues.
ReportCalls(name, repository, error, open_issues, api_label) ==
    LET issue_title == IssueTitle(name)
        existing_issue == ExistingIssue(open_issues, issue_title)
    IN  IF ~error
          THEN CloseIssueCalls(repository, existing_issue)
          ELSE FileOrCommentCalls(name, repository, issue_title,
                                  existing_issue, api_label)

\* The calls made when call number f of the plan raises (f = 0: none raises).
Executed(plan, f) ==
    IF f = 0 THEN plan
    ELSE [k \in 1..f |->
            IF k = f THEN [plan[k] EXCEPT !.raised = TRUE, !.returned = NoLabel]
            ELSE plan[k]]

\* The exception that leaves report_to_github.
Raised(executed) ==
    IF \E k \in 1..Len(executed) : executed[k].raised
      THEN "HTTPError" ELSE "NoException"

\* Variant: the call is not wrapped in try/except.
Caught_Nothing(exc) == FALSE

\* except requests.HTTPError: pass
Caught(exc) == exc = "HTTPError"

\* Variant: the listing is not cached.
CacheStore_Nothing(c, repository, listed) == c

\* functools.lru_cache: the list a call returned is kept under its key; a call
\* that raised stores nothing.  (The default maxsize of 128 keys is not
\* reached by the runs modelled here.)
CacheStore(c, repository, listed) == (repository :> listed) @@ c

\* Variant: the opt-out is not looked at.
NoCreateIssue_Ignored(library) == FALSE

\* library.get("no_create_issue")
NoCreateIssue(library) == library.no_create_issue

\* Variant: the loop ends at the first library whose generator failed.
LoopContinues_StopOnError(k) == k < Len(config.libraries) /\ ~results[k].error

\* for library in config: is there a library after number k
LoopContinues(k) == k < Len(config.libraries)

\* Variant: a skipped library is counted as a failure too.
Failures_CountsSkipped(rs) ==
    Cardinality({ k \in 1..Len(rs) : rs[k].error \/ rs[k].skipped })

\* len([result for result in results if result["error"]])
Failures(rs) == Cardinality({ k \in 1..Len(rs) : rs[k].error })

Skips(rs) == Cardinality({ k \in 1..Len(rs) : rs[k].skipped })

\* What make_report hands to the template.
Report(rs) == [failures |-> Failures(rs), skips |-> Skips(rs), results |-> rs]

\* Variant: the process exits with status 1 only from the second failure on.
ExitStatus_OffByOne(num_failures) == IF num_failures > 1 THEN 1 ELSE 0

\* if num_failures > 0: sys.exit(1); falling off the end of main() exits 0
ExitStatus(num_failures) == IF num_failures > 0 THEN 1 ELSE 0

\* The value load_config returns.
ConfigNone == [is_none |-> TRUE, libraries |-> <<>>]

Loaded(libraries) == [is_none |-> FALSE, libraries |-> libraries]

\* Variant: the module is tried first, the file only when that fails.
LoadConfigResult_ModuleFirst(file_exists, file_libs, importable, has_attr, module_libs) ==
    IF importable /\ has_attr THEN Loaded(module_libs)
    ELSE IF file_exists THEN Loaded(file_libs)
    ELSE ConfigNone

\* load_config: the file is read when it exists, else the module is tried.
LoadConfigResult(file_exists, file_libs, importable, has_attr, module_libs) ==
    IF file_exists THEN Loaded(file_libs)
    ELSE IF importable /\ has_attr THEN Loaded(module_libs)
    ELSE ConfigNone

\* Variant: the check of the loaded configuration is lost.
ConfigIsNone_Unchecked(c) == FALSE

\* if config is None: sys.exit("No configuration could be loaded.")
ConfigIsNone(c) == c.is_none

----------------------------------------------------------------------------
(* load_config, one call *)

LcIdle ==
    [phase |-> "idle", file_exists |-> FALSE, importable |-> FALSE,
     has_attr |-> FALSE, file_libs |-> <<>>, module_libs |-> <<>>,
     imported |-> FALSE, returned |-> ConfigNone]

\* importlib.import_module(config) is reached in the else branch only.
ModuleImported(file_exists) == ~file_exists

----------------------------------------------------------------------------
(* synthesize_library, one call *)

\* An optional key of a library dictionary: <<>> when the key is not set,
\* <<value>> when it is.
Get(opt, default) == IF opt = <<>> THEN default ELSE opt[1]

\* The library dictionaries synthesize_library is called with here.
SynthLibraries ==
    [name : {"a"}, repository : {"o/r1"},
     synth_path : {<<>>, <<"synth/path">>},
     branch_suffix : {<<>>, <<"suffix">>},
     pr_title : {<<>>, <<"title">>},
     metadata_path : {<<>>, <<"">>, <<"meta/path">>},
     deprecated_execution : {<<>>, <<FALSE>>, <<TRUE>>}]

ExtraArgs == { <<>>, <<"--extra">> }

\* command = [sys.executable, "-m", "autosynth.synth"]
SynthCommand == <<"python", "-m", "autosynth.synth">>

\* library_args, as synthesize_library builds it.
LibraryArgs(library) ==
    << "--repository", library.repository,
       "--synth-path", Get(library.synth_path, ""),
       "--branch-suffix", Get(library.branch_suffix, ""),
       "--pr-title", Get(library.pr_title, "") >>
    \o (IF Get(library.metadata_path, "") # ""
          THEN <<"--metadata-path", Get(library.metadata_path, "")>> ELSE <<>>)
    \o (IF Get(library.deprecated_execution, FALSE)
          THEN <<"--deprecated-execution">> ELSE <<>>)

\* The command synthesize_library hands to the runner: runner(command, env).
\* library_args and extra_args are not part of it.
RunnerCommand(library, extra_args) == SynthCommand

\* env = os.environ; env["GITHUB_TOKEN"] = github_token
RunnerEnv(env, github_token) == [env EXCEPT !.GITHUB_TOKEN = github_token]

SlIdle ==
    [phase |-> "idle", library |-> <<>>, github_token |-> "", extra_args |-> <<>>,
     environ |-> [GITHUB_TOKEN |-> "ambient"], command |-> <<>>,
     env |-> [GITHUB_TOKEN |-> ""], library_args |-> <<>>, returncode |-> 0,
     returned |-> <<>>]

----------------------------------------------------------------------------
(* LogCollector and write_xml_log *)

\* LogCollector.__init__: the attributes of the object.
NewLogCollector == [successes |-> <<>>, failures |-> <<>>]

LogHistoryIdle == [added |-> <<>>, xml |-> <<>>]

EntryNames == {"a", "b"}

\* add_success(name, log)
AddSuccessTo(collector, name, log) ==
    [collector EXCEPT !.successes = Append(@, <<name, log>>)]

\* add_failure(name, log)
AddFailureTo(collector, name, log) ==
    [collector EXCEPT !.failures = Append(@, <<name, log>>)]

\* write_xml_log reads log_collector.log_entries and each entry's success; an
\* object without that attribute makes the read raise AttributeError.
XmlLog(collector) ==
    IF "log_entries" \in DOMAIN collector
      THEN [raised |-> "",
            failures |-> Cardinality({ k \in 1..Len(collector.log_entries) :
                                         ~collector.log_entries[k].success }),
            log_entries |-> collector.log_entries]
      ELSE [raised |-> "AttributeError", failures |-> 0, log_entries |-> <<>>]

----------------------------------------------------------------------------
(* GAPICMicrogenerator *)

\* The module's LOCAL_GOOGLEAPIS ("" when the variable is not set) and the
\* attributes of a GAPICMicrogenerator after __init__; "None" stands for None.
GapicIdle ==
    [LOCAL_GOOGLEAPIS |-> "", _googleapis |-> "None", _googleapis_private |-> "None"]

\* synthtool.metadata's destinations, _tracked_paths, the shell commands run
\* and the number of directories tempfile.mkdtemp has made.
SynthtoolIdle ==
    [destinations |-> <<>>, tracked_paths |-> <<>>, shell |-> <<>>, mkdtemps |-> 0]

NoCall ==
    [service |-> "", version |-> "", language |-> "", private |-> FALSE,
     output_dir |-> <<>>, cloned |-> "None", proto |-> "", output_nonempty |-> FALSE,
     googleapis |-> "None", raised |-> "", returned |-> ""]

GeneratedIdle == [count |-> 0, last |-> NoCall]

Languages == {"python", "go"}

\* _clone_googleapis / _clone_googleapis_private: the attribute when it is
\* set, else LOCAL_GOOGLEAPIS when that is set, else what git.clone returns.
CloneGoogleapis(attribute, local, cloned) ==
    IF attribute # "None" THEN attribute
    ELSE IF local # "" THEN local
    ELSE cloned

\* Variant: the check that the output directory holds code is lost.
GenerateRaises_NoOutputCheck(googleapis, proto, output_nonempty) ==
    IF googleapis = "None" THEN "RuntimeError: googleapis unavailable"
    ELSE IF proto = "missing" THEN "FileNotFoundError: no directory"
    ELSE IF proto = "empty" THEN "FileNotFoundError: no protos"
    ELSE ""

\* The exception _generate_code raises, "" when it raises none; proto is
\* the state of the proto directory, output_nonempty that of the output
\* directory after the generator ran.
GenerateRaises(googleapis, proto, output_nonempty) ==
    IF googleapis = "None" THEN "RuntimeError: googleapis unavailable"
    ELSE IF proto = "missing" THEN "FileNotFoundError: no directory"
    ELSE IF proto = "empty" THEN "FileNotFoundError: no protos"
    ELSE IF ~output_nonempty THEN "RuntimeError: output empty"
    ELSE ""

DockerPull(language, generator_version) ==
    <<"docker", "pull",
      "gcr.io/gapic-images/gapic-generator-" \o language \o ":" \o generator_version>>

DockerRun(language) ==
    <<"docker", "run", "gcr.io/gapic-images/gapic-generator-" \o language>>

\* The shell commands _generate_code runs before it returns or raises.
ShellRuns(raised, language) ==
    IF raised = "RuntimeError: googleapis unavailable" THEN <<>>
    ELSE IF raised \in {"FileNotFoundError: no directory", "FileNotFoundError: no protos"}
      THEN <<DockerPull(language, "latest")>>
    ELSE <<DockerPull(language, "latest"), DockerRun(language)>>

\* tempfile.mkdtemp() is reached once the proto checks have passed and no
\* output_dir was given.
UsesMkdtemp(raised, output_dir) ==
    /\ output_dir = <<>>
    /\ raised \in {"", "RuntimeError: output empty"}

TempDirs == <<"/tmp/tmp1", "/tmp/tmp2", "/tmp/tmp3", "/tmp/tmp4">>

\* Path(output_dir).resolve()
OutputDir(output_dir, mkdtemps) ==
    IF output_dir = <<>> THEN TempDirs[mkdtemps + 1] ELSE "/cwd/" \o output_dir[1]

\* metadata.add_client_destination(source=..., api_name=..., ...)
ClientDestination(service, version, language, private) ==
    [source |-> IF ~private THEN "googleapis" ELSE "googleapis-private",
     api_name |-> service, api_version |-> version, language |-> language,
     generator |-> "gapic-generator-" \o language]

----------------------------------------------------------------------------
(* The batch run *)

\* The units below are checked one call at a time, each under a
\* specification of its own; in the batch run they stay as they start.
UnitsIdle ==
    /\ lc = LcIdle
    /\ sl = SlIdle
    /\ log_collector = NewLogCollector
    /\ log_history = LogHistoryIdle
    /\ gapic = GapicIdle
    /\ synthtool = SynthtoolIdle
    /\ generated = GeneratedIdle

Init ==
    /\ pc = "load_config"
    /\ config = ConfigNone
    /\ i = 0
    /\ results = <<>>
    /\ issues \in InitialTrackers
    /\ cache = <<>>
    /\ runs = <<>>
    /\ calls = <<>>
    /\ reports = <<>>
    /\ exit_status = NotExited
    /\ UnitsIdle

\* main(): config = load_config(args.config); exit when it is None.
LoadConfig ==
    /\ pc = "load_config"
    /\ \E file_exists \in BOOLEAN, importable \in BOOLEAN,
          has_list_repositories \in BOOLEAN, libraries \in LibraryLists :
         LET c == LoadConfigResult(file_exists, libraries, importable,
                                   has_list_repositories, libraries)
         IN  /\ config' = c
             /\ IF ConfigIsNone(c)
                  THEN pc' = "done" /\ exit_status' = 1 /\ i' = i
                  ELSE /\ exit_status' = exit_status
                       /\ IF Len(c.libraries) > 0
                            THEN pc' = "synthesize" /\ i' = 1
                            ELSE pc' = "make_report" /\ i' = i
    /\ UNCHANGED <<results, issues, cache, runs, calls, reports, unitVars>>

\* main(): result = synthesize_library(library, ...); results.append(result)
SynthesizeLibrary ==
    /\ pc = "synthesize"
    /\ \E returncode \in ReturnCodes, output \in Outputs :
         /\ runs' = Append(runs, [index |-> i, name |-> config.libraries[i].name,
                                  returncode |-> returncode])
         /\ results' = Append(results,
                              SynthResult(config.libraries[i], returncode, output))
    /\ pc' = "report"
    /\ UNCHANGED <<config, i, issues, cache, calls, reports, exit_status, unitVars>>

\* Where main() goes after the body of the loop for library i.
Advance ==
    IF LoopContinues(i)
      THEN pc' = "synthesize" /\ i' = i + 1
      ELSE pc' = "make_report" /\ i' = i

\* main(): if library.get("no_create_issue"): continue
SkipReport ==
    /\ pc = "report"
    /\ NoCreateIssue(config.libraries[i])
    /\ calls' = Append(calls, <<>>)
    /\ Advance
    /\ UNCHANGED <<config, results, issues, cache, runs, reports, exit_status, unitVars>>

\* main(): try: report_to_github(...) except requests.HTTPError: pass
ReportToGithub ==
    /\ pc = "report"
    /\ ~NoCreateIssue(config.libraries[i])
    /\ LET library == config.libraries[i]
           repository == library.repository
           hit == repository \in DOMAIN cache
           listed == ListIssues(issues, repository, "open", "autosynth failure")
           open_issues == IF hit THEN cache[repository] ELSE listed
       IN  \E api_label \in ApiLabelChoices :
             LET plan == (IF hit THEN <<>> ELSE <<ListCall(repository)>>)
                         \o ReportCalls(library.name, repository, results[i].error,
                                        open_issues, api_label)
             IN  \E f \in 0..Len(plan) :
                   LET executed == Executed(plan, f)
                   IN  /\ calls' = Append(calls, executed)
                       /\ issues' = ApplyCalls(issues, executed)
                       /\ cache' = IF ~hit /\ ~executed[1].raised
                                     THEN CacheStore(cache, repository, listed)
                                     ELSE cache
                       /\ IF Caught(Raised(executed)) \/ Raised(executed) = "NoException"
                            THEN Advance /\ exit_status' = exit_status
                            ELSE pc' = "done" /\ i' = i /\ exit_status' = 1
    /\ UNCHANGED <<config, results, runs, reports, unitVars>>

\* Variant: the report is written only when no library failed.
MakeReport_OnlyOnSuccess ==
    /\ pc = "make_report"
    /\ reports' = IF Failures(results) > 0 THEN reports
                  ELSE Append(reports, Report(results))
    /\ pc' = "exit"
    /\ UNCHANGED <<config, i, results, issues, cache, runs, calls, exit_status, unitVars>>

\* main(): make_report(args.config, results)
MakeReport ==
    /\ pc = "make_report"
    /\ reports' = Append(reports, Report(results))
    /\ pc' = "exit"
    /\ UNCHANGED <<config, i, results, issues, cache, runs, calls, exit_status, unitVars>>

\* main(): sys.exit(1) when num_failures > 0, else fall off the end
Exit ==
    /\ pc = "exit"
    /\ exit_status' = ExitStatus(Failures(results))
    /\ pc' = "done"
    /\ UNCHANGED <<config, i, results, issues, cache, runs, calls, reports, unitVars>>

Next ==
    \/ LoadConfig
    \/ SynthesizeLibrary
    \/ SkipReport
    \/ ReportToGithub
    \/ MakeReport
    \/ Exit

Spec == Init /\ [][Next]_vars

TypeOK ==
    /\ pc \in {"load_config", "synthesize", "report", "make_report", "exit", "done"}
    /\ i \in 0..(MaxLibs + 1)
    /\ Len(results) <= Len(config.libraries)
    /\ Len(calls) <= Len(results)
    /\ exit_status \in {NotExited, 0, 1}

----------------------------------------------------------------------------
(* load_config under every input *)

BatchIdle ==
    /\ pc = "load_config"
    /\ config = ConfigNone
    /\ i = 0
    /\ results = <<>>
    /\ issues = <<>>
    /\ cache = <<>>
    /\ runs = <<>>
    /\ calls = <<>>
    /\ reports = <<>>
    /\ exit_status = NotExited

InitLoadConfig ==
    /\ BatchIdle
    /\ \E file_exists \in BOOLEAN, importable \in BOOLEAN, has_attr \in BOOLEAN,
          file_libs \in LibraryLists, module_libs \in LibraryLists :
         lc = [LcIdle EXCEPT !.phase = "called", !.file_exists = file_exists,
                             !.importable = importable, !.has_attr = has_attr,
                             !.file_libs = file_libs, !.module_libs = module_libs]
    /\ sl = SlIdle
    /\ log_collector = NewLogCollector
    /\ log_history = LogHistoryIdle
    /\ gapic = GapicIdle
    /\ synthtool = SynthtoolIdle
    /\ generated = GeneratedIdle

\* load_config(config)
LoadConfigCall ==
    /\ lc.phase = "called"
    /\ lc' = [lc EXCEPT
                !.phase = "returned",
                !.imported = ModuleImported(lc.file_exists),
                !.returned = LoadConfigResult(lc.file_exists, lc.file_libs,
                                              lc.importable, lc.has_attr,
                                              lc.module_libs)]
    /\ UNCHANGED <<batchVars, sl, log_collector, log_history, gapic, synthtool, generated>>

NextLoadConfig == LoadConfigCall

SpecLoadConfig == InitLoadConfig /\ [][NextLoadConfig]_vars

----------------------------------------------------------------------------
(* C14 *)

\* C14: load_config returns the libraries of the file when a file exists at
\* the path, and then does not import the module; with no file it imports
\* the module and returns what list_repositories() returns when the module is
\* importable and has that function, and None when the import fails or the
\* function is missing.
C14_LoadConfig ==
    lc.phase = "returned" =>
        /\ lc.file_exists =>
              /\ lc.returned = [is_none |-> FALSE, libraries |-> lc.file_libs]
              /\ ~lc.imported
        /\ (~lc.file_exists /\ lc.importable /\ lc.has_attr) =>
              /\ lc.returned = [is_none |-> FALSE, libraries |-> lc.module_libs]
              /\ lc.imported
        /\ (~lc.file_exists /\ ~(lc.importable /\ lc.has_attr)) =>
              /\ lc.returned.is_none
              /\ lc.imported

C14_Witness ==
    /\ lc.phase = "returned"
    /\ lc.file_exists /\ lc.importable /\ lc.has_attr
    /\ lc.file_libs # lc.module_libs
    /\ Len(lc.file_libs) = MaxLibs
    /\ lc.returned.libraries = lc.file_libs

----------------------------------------------------------------------------
(* synthesize_library under every input *)

InitSynthesize ==
    /\ BatchIdle
    /\ lc = LcIdle
    /\ \E library \in SynthLibraries, extra_args \in ExtraArgs :
         sl = [SlIdle EXCEPT !.phase = "called", !.library = library,
                             !.github_token = "token", !.extra_args = extra_args]
    /\ log_collector = NewLogCollector
    /\ log_history = LogHistoryIdle
    /\ gapic = GapicIdle
    /\ synthtool = SynthtoolIdle
    /\ generated = GeneratedIdle

\* synthesize_library(library, github_token, extra_args, runner)
SynthesizeLibraryCall ==
    /\ sl.phase = "called"
    /\ \E returncode \in ReturnCodes, output \in Outputs :
         sl' = [sl EXCEPT
                  !.phase = "returned",
                  !.environ = RunnerEnv(sl.environ, sl.github_token),
                  !.library_args = LibraryArgs(sl.library),
                  !.command = RunnerCommand(sl.library, sl.extra_args),
                  !.env = RunnerEnv(sl.environ, sl.github_token),
                  !.returncode = returncode,
                  !.returned = <<SynthResult(sl.library, returncode, output)>>]
    /\ UNCHANGED <<batchVars, lc, log_collector, log_history, gapic, synthtool, generated>>

NextSynthesize == SynthesizeLibraryCall

SpecSynthesize == InitSynthesize /\ [][NextSynthesize]_vars

----------------------------------------------------------------------------
(* C16 *)

\* The command the claim describes.
ClaimedCommand(library, extra_args) ==
    << "python", "-m", "autosynth.synth",
       "--repository", library.repository,
       "--synth-path", IF library.synth_path = <<>> THEN "" ELSE library.synth_path[1],
       "--branch-suffix",
       IF library.branch_suffix = <<>> THEN "" ELSE library.branch_suffix[1],
       "--pr-title", IF library.pr_title = <<>> THEN "" ELSE library.pr_title[1] >>
    \o (IF library.metadata_path \in {<<>>, <<"">>} THEN <<>>
        ELSE <<"--metadata-path", library.metadata_path[1]>>)
    \o (IF library.deprecated_execution = <<TRUE>>
          THEN <<"--deprecated-execution">> ELSE <<>>)
    \o extra_args

\* C16: the command synthesize_library hands to the runner is the synth entry
\* point followed by --repository, --synth-path, --branch-suffix and
\* --pr-title with their values ("" when unset), --metadata-path <path> when
\* set, --deprecated-execution when true, and then the extra arguments; the
\* environment handed to the runner has GITHUB_TOKEN set to the given token.
C16_RunnerGetsArguments ==
    sl.phase = "returned" =>
        /\ sl.command = ClaimedCommand(sl.library, sl.extra_args)
        /\ sl.env.GITHUB_TOKEN = sl.github_token

----------------------------------------------------------------------------
(* A LogCollector that is added to and then rendered *)

InitLog ==
    /\ BatchIdle
    /\ lc = LcIdle
    /\ sl = SlIdle
    /\ log_collector = NewLogCollector
    /\ log_history = LogHistoryIdle
    /\ gapic = GapicIdle
    /\ synthtool = SynthtoolIdle
    /\ generated = GeneratedIdle

\* log_collector.add_success(name, log)
AddSuccess ==
    /\ Len(log_history.added) < MaxEntries
    /\ log_history.xml = <<>>
    /\ \E name \in EntryNames, log \in Outputs :
         /\ log_collector' = AddSuccessTo(log_collector, name, log)
         /\ log_history' = [log_history EXCEPT !.added =
                Append(@, [name |-> name, log |-> log, success |-> TRUE])]
    /\ UNCHANGED <<batchVars, lc, sl, gapic, synthtool, generated>>

\* log_collector.add_failure(name, log)
AddFailure ==
    /\ Len(log_history.added) < MaxEntries
    /\ log_history.xml = <<>>
    /\ \E name \in EntryNames, log \in Outputs :
         /\ log_collector' = AddFailureTo(log_collector, name, log)
         /\ log_history' = [log_history EXCEPT !.added =
                Append(@, [name |-> name, log |-> log, success |-> FALSE])]
    /\ UNCHANGED <<batchVars, lc, sl, gapic, synthtool, generated>>

\* write_xml_log(name, log_collector, output_file_path)
WriteXmlLog ==
    /\ log_history.xml = <<>>
    /\ log_history' = [log_history EXCEPT !.xml = <<XmlLog(log_collector)>>]
    /\ UNCHANGED <<batchVars, lc, sl, log_collector, gapic, synthtool, generated>>

NextLog ==
    \/ AddSuccess
    \/ AddFailure
    \/ WriteXmlLog

SpecLog == InitLog /\ [][NextLog]_vars

----------------------------------------------------------------------------
(* C18 *)

Added == log_history.added

EntryOf(p) == <<Added[p].name, Added[p].log>>

\* The list an added entry went to, and its place there.
ListOf(p) ==
    IF Added[p].success THEN log_collector.successes ELSE log_collector.failures

PlaceOf(p) ==
    Cardinality({ r \in 1..p : Added[r].success = Added[p].success })

\* The collector keeps entry p before entry q: both are in the same list of
\* the collector, p at an earlier place.
KeptBefore(p, q) ==
    /\ Added[p].success = Added[q].success
    /\ PlaceOf(p) < PlaceOf(q)
    /\ PlaceOf(q) <= Len(ListOf(q))
    /\ ListOf(p)[PlaceOf(p)] = EntryOf(p)
    /\ ListOf(q)[PlaceOf(q)] = EntryOf(q)

\* C18: the collector holds one entry per addition, none removed and none
\* merged, it keeps the entries in the order they were added, and the
\* collection the report is rendered from holds exactly the added entries in
\* that order.
C18_EntriesKeptInAdditionOrder ==
    /\ Len(log_collector.successes) + Len(log_collector.failures) = Len(Added)
    /\ \A p \in 1..Len(Added), q \in 1..Len(Added) : p < q => KeptBefore(p, q)
    /\ log_history.xml # <<>> =>
          /\ log_history.xml[1].raised = ""
          /\ log_history.xml[1].log_entries = Added

----------------------------------------------------------------------------
(* GAPICMicrogenerator._generate_code, called up to MaxGenerate times *)

InitGapic ==
    /\ BatchIdle
    /\ lc = LcIdle
    /\ sl = SlIdle
    /\ log_collector = NewLogCollector
    /\ log_history = LogHistoryIdle
    /\ gapic \in { [GapicIdle EXCEPT !.LOCAL_GOOGLEAPIS = local] :
                     local \in {"", "/local/googleapis"} }
    /\ synthtool = SynthtoolIdle
    /\ generated = GeneratedIdle

\* self._generate_code(service, version, language, private=..., output_dir=...)
GenerateCode ==
    /\ generated.count < MaxGenerate
    /\ \E language \in Languages, private \in BOOLEAN,
          output_dir \in {<<>>, <<"out">>},
          cloned \in {"None", "/cache/clone"},
          proto \in {"missing", "empty", "protos"},
          output_nonempty \in BOOLEAN :
         LET attribute == IF private THEN gapic._googleapis_private
                          ELSE gapic._googleapis
             googleapis == CloneGoogleapis(attribute, gapic.LOCAL_GOOGLEAPIS, cloned)
             raised == GenerateRaises(googleapis, proto, output_nonempty)
             dir == OutputDir(output_dir, synthtool.mkdtemps)
         IN  /\ gapic' = IF private
                           THEN [gapic EXCEPT !._googleapis_private = googleapis]
                           ELSE [gapic EXCEPT !._googleapis = googleapis]
             /\ synthtool' =
                  [destinations |->
                      IF raised = ""
                        THEN Append(synthtool.destinations,
                                    ClientDestination("speech", "v1", language, private))
                        ELSE synthtool.destinations,
                   tracked_paths |->
                      IF raised = "" THEN Append(synthtool.tracked_paths, dir)
                      ELSE synthtool.tracked_paths,
                   shell |-> synthtool.shell \o ShellRuns(raised, language),
                   mkdtemps |->
                      IF UsesMkdtemp(raised, output_dir) THEN synthtool.mkdtemps + 1
                      ELSE synthtool.mkdtemps]
             /\ generated' =
                  [count |-> generated.count + 1,
                   last |-> [service |-> "speech", version |-> "v1",
                             language |-> language, private |-> private,
                             output_dir |-> output_dir, cloned |-> cloned,
                             proto |-> proto, output_nonempty |-> output_nonempty,
                             googleapis |-> googleapis, raised |-> raised,
                             returned |-> IF raised = "" THEN dir ELSE ""]]
    /\ UNCHANGED <<batchVars, lc, sl, log_collector, log_history>>

NextGapic == GenerateCode

SpecGapic == InitGapic /\ [][NextGapic]_vars

----------------------------------------------------------------------------
(* C19 *)

Last == generated'.last

\* The repository the call about to be made cannot get.
Unavailable ==
    /\ (IF Last.private THEN gapic._googleapis_private ELSE gapic._googleapis) = "None"
    /\ gapic.LOCAL_GOOGLEAPIS = ""
    /\ Last.cloned = "None"

ProtoCheckFails == Last.proto \in {"missing", "empty"}

NewShell == SubSeq(synthtool'.shell, Len(synthtool.shell) + 1, Len(synthtool'.shell))

\* C19: a call of _generate_code raises when the googleapis repository is
\* unavailable, the proto directory is missing or holds no .proto file, or
\* the output directory is empty after generation, and then leaves the
\* metadata destinations and the tracked paths as they were; docker run is
\* not among its commands when a proto check failed, and no docker command is
\* when the repository was unavailable.  Otherwise it returns the output
\* directory, has appended one client destination with source "googleapis"
\* or "googleapis-private", the service, the version, the language and
\* "gapic-generator-<language>", and has added the returned directory to the
\* tracked paths.
C19_RecordsOnlyAfterChecks ==
    [][generated'.count = generated.count + 1 =>
         IF Unavailable \/ ProtoCheckFails \/ ~Last.output_nonempty
           THEN /\ Last.raised # ""
                /\ Last.returned = ""
                /\ synthtool'.destinations = synthtool.destinations
                /\ synthtool'.tracked_paths = synthtool.tracked_paths
                /\ Unavailable => NewShell = <<>>
                /\ (Unavailable \/ ProtoCheckFails) =>
                      \A n \in 1..Len(NewShell) : NewShell[n][2] # "run"
           ELSE /\ Last.raised = ""
                /\ Len(synthtool'.destinations) = Len(synthtool.destinations) + 1
                /\ SubSeq(synthtool'.destinations, 1, Len(synthtool.destinations))
                      = synthtool.destinations
                /\ synthtool'.destinations[Len(synthtool'.destinations)] =
                      [source |-> IF Last.private THEN "googleapis-private"
                                  ELSE "googleapis",
                       api_name |-> Last.service, api_version |-> Last.version,
                       language |-> Last.language,
                       generator |-> "gapic-generator-" \o Last.language]
                /\ synthtool'.tracked_paths =
                      Append(synthtool.tracked_paths, Last.returned)
                /\ Last.returned # ""
                /\ \E n \in 1..Len(NewShell) : NewShell[n][2] = "run"]_vars

\* A call that failed its output check, then one that recorded a private client.
C19_Witness ==
    /\ generated.count = 2
    /\ generated.last.raised = ""
    /\ generated.last.private
    /\ Len(synthtool.destinations) = 1
    /\ synthtool.destinations[1].source = "googleapis-private"
    /\ Len(synthtool.tracked_paths) = 1
    /\ Len(synthtool.shell) = 4

----------------------------------------------------------------------------
(* Reading the history *)

Libs == config.libraries

\* Library k's report step ran report_to_github.
Reported(k) == k \in 1..Len(calls) /\ ~Libs[k].no_create_issue

ListRaised(k) ==
    /\ Len(calls[k]) > 0
    /\ calls[k][1].op = "list_issues"
    /\ calls[k][1].raised

\* Library k's report_to_github got an open-issue list.  A cached list is
\* never replaced, so it is the list cache holds for the repository.
Listed(k) == Reported(k) /\ ~ListRaised(k)

OpenIssuesOf(k) == cache[Libs[k].repository]

NoRaise(k) == \A n \in 1..Len(calls[k]) : ~calls[k][n].raised

IsMutating(c) == c.op \in {"create_issue", "create_issue_comment", "patch_issue"}

Mutating(k) == SelectSeq(calls[k], IsMutating)

OpsOf(cs) == [n \in 1..Len(cs) |-> cs[n].op]

CallsWithOp(k, op) == { n \in 1..Len(calls[k]) : calls[k][n].op = op }

TitleFor(k) == "Synthesis failed for " \o Libs[k].name

Matches(k) ==
    { n \in 1..Len(OpenIssuesOf(k)) : OpenIssuesOf(k)[n].title = TitleFor(k) }

Min(S) == CHOOSE x \in S : \A y \in S : x <= y

\* The first issue of the list whose title is library k's issue title.
FirstMatch(k) == OpenIssuesOf(k)[Min(Matches(k))]

IsPrefix(s, t) == Len(s) <= Len(t) /\ \A n \in 1..Len(s) : s[n] = t[n]

FailedCodes == { k \in 1..Len(runs) : runs[k].returncode \notin {0, 28} }

Finished == pc = "done" /\ ~config.is_none

----------------------------------------------------------------------------
(* C1 *)

SameTwiceFailing(k) ==
    /\ k + 1 <= Len(calls)
    /\ Libs[k].name = Libs[k + 1].name
    /\ Libs[k].repository = Libs[k + 1].repository
    /\ Reported(k) /\ Reported(k + 1)
    /\ results[k].error /\ results[k + 1].error
    /\ NoRaise(k) /\ NoRaise(k + 1)
    /\ Matches(k) = {}

\* C1: when report_to_github runs twice in a row for the same library name and
\* repository with error = true, no call raises and the first call found no
\* open issue with the title, the two calls make exactly one create_issue call
\* and the second call comments on the issue instead.
C1_SecondCallComments ==
    \A k \in 1..Len(calls) :
        SameTwiceFailing(k) =>
            /\ Cardinality(CallsWithOp(k, "create_issue")) = 1
            /\ CallsWithOp(k + 1, "create_issue") = {}
            /\ CallsWithOp(k + 1, "create_issue_comment") # {}

----------------------------------------------------------------------------
(* C2 *)

\* The issues library k's report step opened, commented on or closed; a new
\* issue is named by its title.
Touched(k) ==
    { IF Mutating(k)[n].op = "create_issue"
        THEN <<"new", Mutating(k)[n].title>>
        ELSE <<"number", Mutating(k)[n].number>> : n \in 1..Len(Mutating(k)) }

Closes(k) ==
    \E n \in 1..Len(calls[k]) :
        calls[k][n].op = "patch_issue" /\ calls[k][n].state = "closed"

Comments(k) == CallsWithOp(k, "create_issue_comment") # {}

ReportsFailure(k) ==
    \E n \in 1..Len(calls[k]) :
        \/ calls[k][n].op = "create_issue"
        \/ /\ calls[k][n].op = "create_issue_comment"
           /\ calls[k][n].comment = "Autosynth is still having trouble"

\* C2 as stated: per library at most one issue is touched, and no invocation
\* both posts a comment and closes an issue.
C2_NeverCommentsAndCloses ==
    \A k \in 1..Len(calls) :
        /\ Cardinality(Touched(k)) <= 1
        /\ ~(Comments(k) /\ Closes(k))

\* C2 as amended: per library at most one issue is opened, commented on or
\* closed, and no invocation both reports a failure (create_issue or the
\* "still having trouble" comment) and closes an issue; an invocation that
\* closes an issue has posted the closing comment on that issue just before.
C2_AtMostOneIssue ==
    \A k \in 1..Len(calls) :
        /\ Cardinality(Touched(k)) <= 1
        /\ ~(ReportsFailure(k) /\ Closes(k))
        /\ \A n \in 1..Len(calls[k]) :
              calls[k][n].op = "patch_issue" =>
                  /\ n > 1
                  /\ calls[k][n - 1].op = "create_issue_comment"
                  /\ calls[k][n - 1].number = calls[k][n].number
                  /\ calls[k][n - 1].comment = "Autosynth passed, closing!"

C2_Witness ==
    \E k \in 1..Len(calls) : Comments(k) /\ Closes(k) /\ NoRaise(k)

----------------------------------------------------------------------------
(* C3 *)

SuccessWithMatch(k) == Listed(k) /\ ~results[k].error /\ Matches(k) # {}

\* The number and state arguments of the mutating calls.
Shape(cs) ==
    [n \in 1..Len(cs) |->
        <<cs[n].op, cs[n].repository, cs[n].number, cs[n].comment, cs[n].state>>]

CloseShape(k) ==
    << <<"create_issue_comment", Libs[k].repository, FirstMatch(k).number,
         "Autosynth passed, closing!", "">>,
       <<"patch_issue", Libs[k].repository, FirstMatch(k).number, "", "closed">> >>

\* C3: a report with error = false whose open-issue list holds an issue with
\* the library's title posts the closing comment on that issue and then
\* patches that issue to "closed", in that order, and never calls
\* create_issue; a call that raises ends the sequence there, and after the
\* patch went through the tracker holds the issue as closed.
C3_CommentThenClose ==
    \A k \in 1..Len(calls) :
        SuccessWithMatch(k) =>
            /\ IsPrefix(Shape(Mutating(k)), CloseShape(k))
            /\ NoRaise(k) =>
                  /\ Shape(Mutating(k)) = CloseShape(k)
                  /\ issues[FirstMatch(k).number].state = "closed"
            /\ (~NoRaise(k) /\ Mutating(k) # <<>>) =>
                  Mutating(k)[Len(Mutating(k))].raised

C3_Witness ==
    \E k \in 1..Len(calls) :
        /\ SuccessWithMatch(k) /\ NoRaise(k)
        /\ Len(Mutating(k)) = 2
        /\ issues[FirstMatch(k).number].state = "closed"

----------------------------------------------------------------------------
(* C4 *)

\* The list the report_to_github about to run gets, when listing succeeds.
ListToGet ==
    IF Libs[i].repository \in DOMAIN cache
      THEN cache[Libs[i].repository]
      ELSE ListIssues(issues, Libs[i].repository, "open", "autosynth failure")

SuccessNoMatchNow ==
    /\ pc = "report"
    /\ ~Libs[i].no_create_issue
    /\ ~results[i].error
    /\ \A n \in 1..Len(ListToGet) :
          ListToGet[n].title # "Synthesis failed for " \o Libs[i].name

\* C4: a report with error = false, when no issue of the open-issue list has
\* the library's title, makes no create_issue, create_issue_comment or
\* patch_issue call and leaves the tracker's issues as they were.
C4_NoMutation ==
    [][SuccessNoMatchNow =>
          /\ issues' = issues
          /\ \A n \in 1..Len(calls'[i]) : ~IsMutating(calls'[i][n])]_vars

C4_Witness ==
    \E k \in 1..Len(calls) :
        /\ Listed(k) /\ ~results[k].error /\ Matches(k) = {}
        /\ Len(OpenIssuesOf(k)) > 0
        /\ Mutating(k) = <<>>

----------------------------------------------------------------------------
(* C5 *)

FailureNoMatch(k) == Listed(k) /\ results[k].error /\ Matches(k) = {}

LabelOf(k) == calls[k][Min(CallsWithOp(k, "get_api_label"))].returned

\* C5: a report with error = true whose open-issue list holds no issue with
\* the library's title makes no comment and no patch call and at most one
\* create_issue call; when no call raises it makes exactly one, for the
\* library's repository, with title "Synthesis failed for <name>" and with
\* the labels "autosynth failure", "priority: p1", "type: bug" plus the label
\* get_api_label returned exactly when that label is not empty.
C5_CreatesOneIssue ==
    \A k \in 1..Len(calls) :
        FailureNoMatch(k) =>
            /\ CallsWithOp(k, "create_issue_comment") = {}
            /\ CallsWithOp(k, "patch_issue") = {}
            /\ Cardinality(CallsWithOp(k, "create_issue")) <= 1
            /\ NoRaise(k) =>
                  /\ Cardinality(CallsWithOp(k, "create_issue")) = 1
                  /\ Cardinality(CallsWithOp(k, "get_api_label")) = 1
                  /\ \A n \in CallsWithOp(k, "create_issue") :
                        /\ calls[k][n].repository = Libs[k].repository
                        /\ calls[k][n].title = TitleFor(k)
                        /\ SeqToSet(calls[k][n].labels) =
                              {"autosynth failure", "priority: p1", "type: bug"}
                              \cup (IF LabelOf(k) # "" THEN {LabelOf(k)} ELSE {})
                        /\ Len(calls[k][n].labels) =
                              IF LabelOf(k) # "" THEN 4 ELSE 3

C5_Witness ==
    /\ \E k \in 1..Len(calls) :
          FailureNoMatch(k) /\ NoRaise(k) /\ LabelOf(k) = ""
    /\ \E k \in 1..Len(calls) :
          FailureNoMatch(k) /\ NoRaise(k) /\ LabelOf(k) # ""

----------------------------------------------------------------------------
(* C6 *)

FailureWithMatch(k) == Listed(k) /\ results[k].error /\ Matches(k) # {}

\* C6: a report with error = true whose open-issue list holds at least one
\* issue with the library's title makes exactly one mutating call, a "still
\* having trouble" comment on the first such issue of the list, and no
\* create_issue or patch_issue call.
C6_CommentsOnFirstMatch ==
    \A k \in 1..Len(calls) :
        FailureWithMatch(k) =>
            /\ Len(Mutating(k)) = 1
            /\ Mutating(k)[1].op = "create_issue_comment"
            /\ Mutating(k)[1].comment = "Autosynth is still having trouble"
            /\ Mutating(k)[1].number = FirstMatch(k).number
            /\ Mutating(k)[1].repository = Libs[k].repository

C6_Witness ==
    \E k \in 1..Len(calls) :
        /\ FailureWithMatch(k) /\ NoRaise(k)
        /\ Cardinality(Matches(k)) >= 2
        /\ Len(issues[FirstMatch(k).number].comments) = 1

----------------------------------------------------------------------------
(* C7 *)

Skipped28(k) == k \in 1..Len(runs) /\ runs[k].returncode = 28

\* C7: a generator exit code of 28 gives a result with error = false, is not
\* counted in the failure count of the report or of the exit status, and its
\* report step makes no create_issue call and posts no "still having trouble"
\* comment.
C7_SkippedIsNotFailure ==
    /\ \A k \in 1..Len(runs) :
          Skipped28(k) =>
              /\ ~results[k].error
              /\ results[k].skipped
              /\ k <= Len(calls) => ~ReportsFailure(k)
    /\ \A r \in 1..Len(reports) : reports[r].failures = Cardinality(FailedCodes)
    /\ Finished => (exit_status = 1 <=> FailedCodes # {})

C7_Witness ==
    /\ Finished
    /\ exit_status = 0
    /\ \E k \in 1..Len(runs) : Skipped28(k) /\ Reported(k) /\ Closes(k)
    /\ \A k \in 1..Len(runs) : Skipped28(k)

----------------------------------------------------------------------------
(* C8 *)

\* C8: the generator runs are those of the configuration's libraries, each
\* once and in configuration order, and once the loop is over every library
\* has been run, whatever the exit codes.
C8_EveryLibraryOnceInOrder ==
    /\ Len(runs) <= Len(Libs)
    /\ \A k \in 1..Len(runs) :
          runs[k].index = k /\ runs[k].name = Libs[k].name
    /\ pc \in {"synthesize", "report"} =>
          Len(runs) = (IF pc = "report" THEN i ELSE i - 1)
    /\ (pc \in {"make_report", "exit"} \/ Finished) => Len(runs) = Len(Libs)

C8_Witness ==
    /\ Finished
    /\ Len(runs) = MaxLibs
    /\ IsError(runs[1].returncode)

----------------------------------------------------------------------------
(* C9 *)

SomeRaise == \E k \in 1..Len(calls) : ~NoRaise(k)

\* C9: an HTTP error raised by a tracker call does not end the batch run:
\* the loop is still at the library it would be at, and a finished run has
\* run and reported every library, has written the report once, and its
\* failure count and exit status are those the exit codes alone decide.
C9_TrackerErrorsSuppressed ==
    SomeRaise =>
        /\ pc = "done" => Finished
        /\ pc \in {"synthesize", "report"} => Len(calls) = i - 1
        /\ Finished =>
              /\ Len(runs) = Len(Libs)
              /\ Len(calls) = Len(Libs)
              /\ Len(reports) = 1
              /\ reports[1].failures = Cardinality(FailedCodes)
              /\ exit_status = (IF FailedCodes # {} THEN 1 ELSE 0)

C9_Witness ==
    /\ Finished
    /\ Len(calls) = MaxLibs
    /\ ~NoRaise(1)
    /\ exit_status = 0

----------------------------------------------------------------------------
(* C10 *)

\* C10: for a library whose configuration sets no_create_issue the report
\* step makes no tracker call, whatever the exit code, and the library's
\* result is in the results and in the failure count of the report.
C10_OptOutMakesNoCall ==
    /\ \A k \in 1..Len(calls) :
          Libs[k].no_create_issue =>
              /\ calls[k] = <<>>
              /\ Len(results) >= k
              /\ results[k].name = Libs[k].name
    /\ \A r \in 1..Len(reports) :
          /\ Len(reports[r].results) = Len(Libs)
          /\ reports[r].failures =
                Cardinality({ k \in 1..Len(Libs) : results[k].error })

C10_Witness ==
    /\ Finished
    /\ \E k \in 1..Len(calls) :
          /\ Libs[k].no_create_issue
          /\ results[k].error
          /\ reports[1].failures >= 1
          /\ Len(issues) > 0

----------------------------------------------------------------------------
(* C11 *)

\* C11: after a batch run whose configuration loaded, the exit status is 1
\* when at least one generator exit code was neither 0 nor 28, and 0
\* otherwise.
C11_ExitStatus ==
    Finished =>
        /\ (\E k \in 1..Len(runs) : runs[k].returncode \notin {0, 28})
              => exit_status = 1
        /\ (\A k \in 1..Len(runs) : runs[k].returncode \in {0, 28})
              => exit_status = 0
        /\ Len(runs) = Len(Libs)

C11_Witness ==
    /\ Finished
    /\ exit_status = 1
    /\ Cardinality(FailedCodes) = 1
    /\ \E k \in 1..Len(runs) : runs[k].returncode = 28

----------------------------------------------------------------------------
(* C12 *)

\* C12: in a batch run whose configuration loaded the report is written at
\* most once, not before every library has been run and reported, and it has
\* been written once when the process is about to exit or has exited, whether
\* or not libraries failed.
C12_ReportWrittenOnce ==
    /\ Len(reports) <= 1
    /\ Len(reports) = 1 =>
          /\ ~config.is_none
          /\ Len(runs) = Len(Libs)
          /\ Len(calls) = Len(Libs)
          /\ reports[1].results = results
    /\ pc \in {"load_config", "synthesize", "report", "make_report"} =>
          reports = <<>> /\ exit_status = NotExited
    /\ pc = "exit" => Len(reports) = 1 /\ exit_status = NotExited
    /\ Finished => Len(reports) = 1 /\ exit_status \in {0, 1}

C12_Witness ==
    /\ Finished
    /\ Len(reports) = 1
    /\ exit_status = 1
    /\ Len(Libs) = MaxLibs
    /\ reports[1].failures = MaxLibs

----------------------------------------------------------------------------
(* C13 *)

\* C13: when load_config yields no library list the run ends at once with a
\* non-zero exit status: no generator has run, no tracker call was made, the
\* tracker and the issue cache are untouched and no report is written.
C13_NoConfigurationAborts ==
    (pc # "load_config" /\ config.is_none) =>
        /\ pc = "done"
        /\ exit_status = 1
        /\ runs = <<>>
        /\ results = <<>>
        /\ calls = <<>>
        /\ reports = <<>>
        /\ cache = <<>>
        /\ issues \in InitialTrackers

C13_Witness ==
    /\ pc = "done"
    /\ config.is_none
    /\ exit_status = 1
    /\ Len(issues) > 0

----------------------------------------------------------------------------
(* C15 *)

\* C15: the failure count of a written report is the number of entries it
\* was rendered from whose run was unsuccessful, those entries are the
\* driver's results at that time, and the exit status is decided by the same
\* count.
C15_ReportCountsFailures ==
    /\ \A r \in 1..Len(reports) :
          /\ reports[r].results = results
          /\ reports[r].failures =
                Cardinality({ k \in 1..Len(reports[r].results) :
                                reports[r].results[k].error })
          /\ reports[r].failures = Cardinality(FailedCodes)
    /\ Finished => exit_status = (IF reports[1].failures > 0 THEN 1 ELSE 0)

C15_Witness ==
    /\ Finished
    /\ reports[1].failures = 1
    /\ reports[1].skips = 1
    /\ exit_status = 1

----------------------------------------------------------------------------
(* C17 *)

\* The list_issues calls for a repository, as <<library, call>> positions.
ListCallsFor(repository) ==
    { <<k, n>> \in (1..Len(calls)) \X (1..3) :
        /\ n <= Len(calls[k])
        /\ calls[k][n].op = "list_issues"
        /\ calls[k][n].repository = repository }

ReposInUse == { Libs[k].repository : k \in 1..Len(Libs) }

\* C17 as stated: list_issues is called at most once per repository (the
\* state and label of the key are fixed) within one batch run.
C17_ListedOncePerKey ==
    \A repository \in ReposInUse : Cardinality(ListCallsFor(repository)) <= 1

Answered(repository) ==
    { p \in ListCallsFor(repository) : ~calls[p[1]][p[2]].raised }

RepoNow == Libs[i].repository

\* What a report step does to the cache and of the listing.
CacheStep ==
    IF pc = "report" /\ ~Libs[i].no_create_issue
      THEN IF RepoNow \in DOMAIN cache
             THEN /\ cache' = cache
                  /\ \A n \in 1..Len(calls'[i]) : calls'[i][n].op # "list_issues"
             ELSE /\ Len(calls'[i]) >= 1
                  /\ calls'[i][1].op = "list_issues"
                  /\ IF calls'[i][1].raised
                       THEN cache' = cache
                       ELSE /\ DOMAIN cache' = DOMAIN cache \cup {RepoNow}
                            /\ cache'[RepoNow] =
                                  ListIssues(issues, RepoNow, "open", "autosynth failure")
                            /\ \A r \in DOMAIN cache : cache'[r] = cache[r]
      ELSE cache' = cache

\* C17 as amended: per repository list_issues returns at most once in a batch
\* run; a call that raised is not cached and the next report for the
\* repository lists again; once a call has returned, its list is kept as it
\* is and every later report for the repository uses it without calling
\* list_issues, whatever was created or closed in between.
C17_CachedOnceAnswered ==
    /\ [](\A repository \in ReposInUse :
            /\ Cardinality(Answered(repository)) <= 1
            /\ \A p \in Answered(repository), q \in ListCallsFor(repository) :
                  q[1] <= p[1]
            /\ (Answered(repository) # {}) <=> (repository \in DOMAIN cache))
    /\ [][CacheStep]_vars

\* A later report used a list that no longer is what the tracker would return.
C17_Witness ==
    \E k \in 1..Len(calls) :
        /\ k >= 2
        /\ Listed(k) /\ Listed(k - 1)
        /\ Libs[k].repository = Libs[k - 1].repository
        /\ CallsWithOp(k, "list_issues") = {}
        /\ Mutating(k) # <<>> /\ NoRaise(k)
        /\ OpenIssuesOf(k) #
              ListIssues(issues, Libs[k].repository, "open", "autosynth failure")

====
